---- MODULE Spec2Model ----
(***************************************************************************)
(* Model of the BadgerDB buffer manager, src/src/buffer.cpp (class BufMgr).*)
(* The state is the manager's fields (bufDescTable, bufPool, hashTable,    *)
(* clockHand), the pages that exist in each file, and a record `last` of   *)
(* what the most recent call did (the exception it ended with, the frame   *)
(* it found or allocBuf handed out, the collaborator calls it made).       *)
(* Every public method is one action that runs the whole method.           *)
(* BufDesc, BufHashTbl and File are BadgerDB's: Clear() resets every field *)
(* of a descriptor (file = NULL, pageNo = Page::INVALID_NUMBER), lookup    *)
(* and remove of an absent key throw HashNotFoundException.                *)
(***************************************************************************)
EXTENDS Integers, Sequences, FiniteSets, TLC

\* ---- bounds of the model ------------------------------------------------
\* numBufs, the constructor's argument
NumBufs == 2
\* cap of the pins held at once (readPage hits stop adding pins there)
MaxPin == 2

\* the File objects the callers use
Files == {1, 2}
\* the page numbers each file can hold: file 1 can grow by one page
PageNos == [f \in Files |-> IF f = 1 THEN {1, 2} ELSE {1}]
\* the pages every file holds when the manager is constructed
InitPages == [f \in Files |-> {1}]

Frames == 0 .. (NumBufs - 1)
Pages == UNION {PageNos[f] : f \in Files}
Keys == {k \in Files \X Pages : k[2] \in PageNos[k[1]]}

\* File* NULL and Page::INVALID_NUMBER, the values of a cleared descriptor
NoFile == 0
InvalidPage == 0
\* "no frame": the FrameId out-parameter was never assigned
NoFrame == -1

VARIABLES bufDescTable, bufPool, hashTable, clockHand, filePages, last

vars == <<bufDescTable, bufPool, hashTable, clockHand, filePages, last>>

\* ---- BufDesc (buffer.h) -------------------------------------------------
\* BufDesc::Clear(): every field back to its constructed value
Clear ==
  [file |-> NoFile, pageNo |-> InvalidPage, valid |-> FALSE,
   refbit |-> FALSE, dirty |-> FALSE, pinCnt |-> 0]

\* BufDesc::Set(file, pageNo): valid, pinned once, clean, referenced
Set(file, pageNo) ==
  [file |-> file, pageNo |-> pageNo, valid |-> TRUE,
   refbit |-> TRUE, dirty |-> FALSE, pinCnt |-> 1]

\* ---- BufHashTbl (bufHashTbl.h) ------------------------------------------
\* the table maps every key to a frame or to NoFrame (no entry)
HashPresent(hash, file, pageNo) ==
  /\ <<file, pageNo>> \in Keys
  /\ hash[<<file, pageNo>>] # NoFrame

\* lookup: the frame of an entry that is present
lookup(hash, file, pageNo) == hash[<<file, pageNo>>]

\* insert: add the entry (the caller has checked it is absent)
insert(hash, file, pageNo, frameNo) ==
  [hash EXCEPT ![<<file, pageNo>>] = frameNo]

\* remove: drop the entry (the caller has checked it is present; remove of an
\* absent key throws HashNotFoundException)
remove(hash, file, pageNo) ==
  [hash EXCEPT ![<<file, pageNo>>] = NoFrame]

\* ---- File collaborator (file.h) -----------------------------------------
\* the page numbers `file` can still hand out
FreePages(file, pages) == PageNos[file] \ pages

Min(S) == CHOOSE x \in S : \A y \in S : x <= y

\* File::allocatePage: the lowest page number the file does not hold
allocatePage(file, pages) == Min(FreePages(file, pages))

\* ---- BufMgr::advanceClock -----------------------------------------------
advanceClock(hand) == (hand + 1) % NumBufs

\* ---- BufMgr::allocBuf ---------------------------------------------------
\* mutant: the sweep resets the whole descriptor of a referenced frame
secondChanceClears(d) == Clear

\* a frame referenced recently loses its refbit and is passed over
secondChance(d) == [d EXCEPT !.refbit = FALSE]

\* mutant: the sweep does not look at the pin count of a candidate
stillPinnedIgnored(d) == FALSE

\* a frame that is in use is passed over
stillPinned(d) == d.pinCnt # 0

\* mutant: the sweep gives up only after three laps of pinned frames
allPinnedLate(count) == count = 3 * NumBufs

\* count frames in a row were pinned: all buffer frames are pinned
allPinned(count) == count = NumBufs

\* One run of the while(true) loop from (tbl, hash, hand, count). The result
\* is the state allocBuf leaves, the frame it returns, the exception it ends
\* with ("none" when it returns), the pages it wrote back, and the number of
\* calls of advanceClock.
RECURSIVE allocBufLoop(_, _, _, _, _)
allocBufLoop(tbl, hash, pool, hand, count) ==
  LET h == advanceClock(hand)
      d == tbl[h]
      c == IF d.pinCnt > 0 THEN count + 1 ELSE 0
  IN  IF d.pinCnt > 0 /\ allPinned(c)
        THEN [exc |-> "BufferExceeded", tbl |-> tbl, hash |-> hash,
              hand |-> h, frame |-> NoFrame, wrote |-> <<>>, advances |-> 1]
      ELSE IF d.valid = FALSE
        THEN [exc |-> "none", tbl |-> [tbl EXCEPT ![h] = Clear], hash |-> hash,
              hand |-> h, frame |-> h, wrote |-> <<>>, advances |-> 1]
      ELSE IF d.refbit = TRUE
        THEN [allocBufLoop([tbl EXCEPT ![h] = secondChance(d)], hash, pool,
                           h, c)
                EXCEPT !.advances = @ + 1]
      ELSE IF stillPinned(d)
        THEN [allocBufLoop(tbl, hash, pool, h, c) EXCEPT !.advances = @ + 1]
      ELSE LET w == IF d.dirty = TRUE THEN << <<d.file, pool[h]>> >> ELSE <<>>
           IN  IF HashPresent(hash, d.file, d.pageNo)
                 THEN [exc |-> "none", tbl |-> [tbl EXCEPT ![h] = Clear],
                       hash |-> remove(hash, d.file, d.pageNo),
                       hand |-> h, frame |-> h, wrote |-> w, advances |-> 1]
                 ELSE [exc |-> "HashNotFound", tbl |-> tbl, hash |-> hash,
                       hand |-> h, frame |-> NoFrame, wrote |-> w,
                       advances |-> 1]

allocBuf(tbl, hash, pool, hand) == allocBufLoop(tbl, hash, pool, hand, 0)

\* ---- the record of the last call ----------------------------------------
\* op: the method; exc: the exception it ended with; hit: the hash lookup of
\* readPage/unPinPage succeeded; allocBuf: how the call of allocBuf ended
\* ("none": not called); frame: the frame found or allocated; wrote: the
\* (file, page) pairs passed to writePage, in order; diskRead, created,
\* deleted: File::readPage, allocatePage, deletePage was called; file, pageNo:
\* allocPage's file and the page number it returned, flushFile's file, the
\* page a disposePage found in the hash table. advances: the calls of
\* advanceClock in allocBuf.
NoCall ==
  [op |-> "init", file |-> NoFile, pageNo |-> InvalidPage,
   exc |-> "none", hit |-> FALSE, allocBuf |-> "none", frame |-> NoFrame,
   diskRead |-> FALSE, wrote |-> <<>>, created |-> FALSE, deleted |-> FALSE,
   afterAlloc |-> FALSE, advances |-> 0]

\* the call before was the successful allocPage that returned (file, pageNo)
AfterAlloc(file, pageNo) ==
  /\ last.op = "allocPage" /\ last.exc = "none"
  /\ last.file = file /\ last.pageNo = pageNo

\* ---- BufMgr::BufMgr -----------------------------------------------------
Init ==
  /\ bufDescTable = [i \in Frames |-> Clear]
  /\ bufPool = [i \in Frames |-> InvalidPage]
  /\ hashTable = [k \in Keys |-> NoFrame]
  /\ clockHand = NumBufs - 1
  /\ filePages = InitPages
  /\ last = NoCall

\* the pins held on the first n frames
RECURSIVE TotalPins(_, _)
TotalPins(tbl, n) ==
  IF n = 0 THEN 0 ELSE tbl[n - 1].pinCnt + TotalPins(tbl, n - 1)

\* ---- BufMgr::readPage ---------------------------------------------------
\* mutant: a hit that does not pin the frame
readPageHitNoPin(file, pageNo) ==
  LET frameNo == lookup(hashTable, file, pageNo)
  IN  /\ TotalPins(bufDescTable, NumBufs) < MaxPin
      /\ bufDescTable' = [bufDescTable EXCEPT ![frameNo].refbit = TRUE]
      /\ UNCHANGED <<bufPool, hashTable, clockHand, filePages>>
      /\ last' = [NoCall EXCEPT !.op = "readPage", !.hit = TRUE,
                    !.frame = frameNo,
                    !.afterAlloc = AfterAlloc(file, pageNo)]

\* the try block: the page is in the buffer pool
readPageHit(file, pageNo) ==
  LET frameNo == lookup(hashTable, file, pageNo)
  IN  /\ TotalPins(bufDescTable, NumBufs) < MaxPin
      /\ bufDescTable' = [bufDescTable EXCEPT ![frameNo].refbit = TRUE,
                                              ![frameNo].pinCnt = @ + 1]
      /\ UNCHANGED <<bufPool, hashTable, clockHand, filePages>>
      /\ last' = [NoCall EXCEPT !.op = "readPage", !.hit = TRUE,
                    !.frame = frameNo,
                    !.afterAlloc = AfterAlloc(file, pageNo)]

\* mutant: a miss that does not insert the page into the hash table
readPageMissNoInsert(file, pageNo) ==
  LET r == allocBuf(bufDescTable, hashTable, bufPool, clockHand)
  IN  /\ clockHand' = r.hand
      /\ UNCHANGED filePages
      /\ IF r.exc # "none"
           THEN /\ bufDescTable' = r.tbl
                /\ hashTable' = r.hash
                /\ UNCHANGED bufPool
                /\ last' = [NoCall EXCEPT !.op = "readPage", !.exc = r.exc,
                              !.advances = r.advances,
                              !.allocBuf = r.exc, !.wrote = r.wrote,
                              !.afterAlloc = AfterAlloc(file, pageNo)]
           ELSE /\ bufPool' = [bufPool EXCEPT ![r.frame] = pageNo]
                /\ hashTable' = r.hash
                /\ bufDescTable' = [r.tbl EXCEPT ![r.frame] = Set(file, pageNo)]
                /\ last' = [NoCall EXCEPT !.op = "readPage",
                              !.allocBuf = "ok", !.frame = r.frame,
                              !.advances = r.advances,
                              !.diskRead = TRUE, !.wrote = r.wrote,
                              !.afterAlloc = AfterAlloc(file, pageNo)]

\* the catch block: the page is not in the buffer pool
readPageMiss(file, pageNo) ==
  LET r == allocBuf(bufDescTable, hashTable, bufPool, clockHand)
  IN  /\ clockHand' = r.hand
      /\ UNCHANGED filePages
      /\ IF r.exc # "none"
           THEN /\ bufDescTable' = r.tbl
                /\ hashTable' = r.hash
                /\ UNCHANGED bufPool
                /\ last' = [NoCall EXCEPT !.op = "readPage", !.exc = r.exc,
                              !.advances = r.advances,
                              !.allocBuf = r.exc, !.wrote = r.wrote,
                              !.afterAlloc = AfterAlloc(file, pageNo)]
           ELSE /\ bufPool' = [bufPool EXCEPT ![r.frame] = pageNo]
                /\ hashTable' = insert(r.hash, file, pageNo, r.frame)
                /\ bufDescTable' = [r.tbl EXCEPT ![r.frame] = Set(file, pageNo)]
                /\ last' = [NoCall EXCEPT !.op = "readPage",
                              !.allocBuf = "ok", !.frame = r.frame,
                              !.advances = r.advances,
                              !.diskRead = TRUE, !.wrote = r.wrote,
                              !.afterAlloc = AfterAlloc(file, pageNo)]

readPage(file, pageNo) ==
  /\ pageNo \in filePages[file]
  /\ IF HashPresent(hashTable, file, pageNo)
       THEN readPageHit(file, pageNo)
       ELSE readPageMiss(file, pageNo)

\* ---- BufMgr::unPinPage --------------------------------------------------
\* mutant: no page-not-pinned check before the dirty bit is set
unPinPageNoCheck(file, pageNo, dirty) ==
  /\ UNCHANGED <<bufPool, hashTable, clockHand, filePages>>
  /\ IF HashPresent(hashTable, file, pageNo)
       THEN LET frameNo == lookup(hashTable, file, pageNo)
            IN  /\ bufDescTable' = [bufDescTable EXCEPT
                     ![frameNo].pinCnt = IF @ > 0 THEN @ - 1 ELSE @,
                     ![frameNo].dirty = IF dirty = TRUE THEN TRUE ELSE @]
                /\ last' = [NoCall EXCEPT !.op = "unPinPage", !.hit = TRUE,
                              !.frame = frameNo]
       ELSE /\ UNCHANGED bufDescTable
            /\ last' = [NoCall EXCEPT !.op = "unPinPage"]

unPinPage(file, pageNo, dirty) ==
  /\ UNCHANGED <<bufPool, hashTable, clockHand, filePages>>
  /\ IF HashPresent(hashTable, file, pageNo)
       THEN LET frameNo == lookup(hashTable, file, pageNo)
            IN  IF bufDescTable[frameNo].pinCnt = 0
                  THEN /\ UNCHANGED bufDescTable
                       /\ last' = [NoCall EXCEPT !.op = "unPinPage",
                                     !.hit = TRUE, !.frame = frameNo,
                                     !.exc = "PageNotPinned"]
                  ELSE /\ bufDescTable' = [bufDescTable EXCEPT
                            ![frameNo].pinCnt =
                               IF @ > 0 THEN @ - 1 ELSE @,
                            ![frameNo].dirty =
                               IF dirty = TRUE THEN TRUE ELSE @]
                       /\ last' = [NoCall EXCEPT !.op = "unPinPage",
                                     !.hit = TRUE, !.frame = frameNo]
       ELSE /\ UNCHANGED bufDescTable
            /\ last' = [NoCall EXCEPT !.op = "unPinPage"]

\* ---- BufMgr::allocPage --------------------------------------------------
allocPage(file) ==
  /\ FreePages(file, filePages[file]) # {}
  /\ LET pageNo == allocatePage(file, filePages[file])
         r == allocBuf(bufDescTable, hashTable, bufPool, clockHand)
     IN  /\ filePages' = [filePages EXCEPT ![file] = @ \cup {pageNo}]
         /\ clockHand' = r.hand
         /\ IF r.exc # "none"
              THEN /\ bufDescTable' = r.tbl
                   /\ hashTable' = r.hash
                   /\ UNCHANGED bufPool
                   /\ last' = [NoCall EXCEPT !.op = "allocPage", !.file = file,
                                 !.exc = r.exc, !.allocBuf = r.exc,
                                 !.advances = r.advances,
                                 !.wrote = r.wrote, !.created = TRUE]
            ELSE IF HashPresent(r.hash, file, pageNo)
              THEN /\ bufDescTable' = r.tbl
                   /\ hashTable' = r.hash
                   /\ bufPool' = [bufPool EXCEPT ![r.frame] = pageNo]
                   /\ last' = [NoCall EXCEPT !.op = "allocPage", !.file = file,
                                 !.pageNo = pageNo,
                                 !.exc = "HashAlreadyPresent",
                                 !.allocBuf = "ok", !.frame = r.frame,
                                 !.advances = r.advances,
                                 !.wrote = r.wrote, !.created = TRUE]
              ELSE /\ bufPool' = [bufPool EXCEPT ![r.frame] = pageNo]
                   /\ hashTable' = insert(r.hash, file, pageNo, r.frame)
                   /\ bufDescTable' = [r.tbl EXCEPT
                                         ![r.frame] = Set(file, pageNo)]
                   /\ last' = [NoCall EXCEPT !.op = "allocPage", !.file = file,
                                 !.pageNo = pageNo,
                                 !.allocBuf = "ok", !.frame = r.frame,
                                 !.advances = r.advances,
                                 !.wrote = r.wrote, !.created = TRUE]

\* ---- BufMgr::flushFile --------------------------------------------------
\* The for loop from frame i on, with the pages written so far.
RECURSIVE flushFileLoop(_, _, _, _, _)
flushFileLoop(tbl, hash, pool, i, wrote) ==
  IF i = NumBufs
    THEN [exc |-> "none", tbl |-> tbl, hash |-> hash, wrote |-> wrote,
          frame |-> NoFrame]
  ELSE IF tbl[i].valid = FALSE
    THEN [exc |-> "BadBuffer", tbl |-> tbl, hash |-> hash, wrote |-> wrote,
          frame |-> i]
  ELSE IF tbl[i].pinCnt > 0
    THEN [exc |-> "PagePinned", tbl |-> tbl, hash |-> hash, wrote |-> wrote,
          frame |-> i]
  ELSE LET w == IF tbl[i].dirty = TRUE
                  THEN Append(wrote, <<tbl[i].file, pool[i]>>)
                  ELSE wrote
           t == IF tbl[i].dirty = TRUE
                  THEN [tbl EXCEPT ![i].dirty = FALSE]
                  ELSE tbl
       IN  IF HashPresent(hash, t[i].file, t[i].pageNo)
             THEN flushFileLoop([t EXCEPT ![i] = Clear],
                                remove(hash, t[i].file, t[i].pageNo),
                                pool, i + 1, w)
             ELSE [exc |-> "HashNotFound", tbl |-> t, hash |-> hash,
                   wrote |-> w, frame |-> i]

\* mutant: the frames are cleared but their hash table entries stay
flushFileKeepsIndex(file) ==
  LET r == flushFileLoop(bufDescTable, hashTable, bufPool, 0, <<>>)
  IN  /\ bufDescTable' = r.tbl
      /\ hashTable' = hashTable
      /\ UNCHANGED <<bufPool, clockHand, filePages>>
      /\ last' = [NoCall EXCEPT !.op = "flushFile", !.file = file,
                    !.exc = r.exc, !.wrote = r.wrote]

flushFile(file) ==
  LET r == flushFileLoop(bufDescTable, hashTable, bufPool, 0, <<>>)
  IN  /\ bufDescTable' = r.tbl
      /\ hashTable' = r.hash
      /\ UNCHANGED <<bufPool, clockHand, filePages>>
      /\ last' = [NoCall EXCEPT !.op = "flushFile", !.file = file,
                    !.exc = r.exc, !.wrote = r.wrote]

\* ---- BufMgr::disposePage ------------------------------------------------
disposePage(file, PageNo) ==
  /\ UNCHANGED <<bufPool, clockHand>>
  /\ IF HashPresent(hashTable, file, PageNo)
       THEN LET frameNo == lookup(hashTable, file, PageNo)
                tbl == [bufDescTable EXCEPT ![frameNo] = Clear]
            IN  /\ bufDescTable' = tbl
                /\ IF HashPresent(hashTable, tbl[frameNo].file,
                                  tbl[frameNo].pageNo)
                     THEN /\ hashTable' = remove(hashTable, tbl[frameNo].file,
                                                 tbl[frameNo].pageNo)
                          /\ filePages' = [filePages EXCEPT
                                             ![file] = @ \ {PageNo}]
                          /\ last' = [NoCall EXCEPT !.op = "disposePage",
                                        !.file = file, !.pageNo = PageNo,
                                        !.hit = TRUE, !.frame = frameNo,
                                        !.deleted = TRUE]
                     ELSE /\ UNCHANGED <<hashTable, filePages>>
                          /\ last' = [NoCall EXCEPT !.op = "disposePage",
                                        !.file = file, !.pageNo = PageNo,
                                        !.hit = TRUE, !.frame = frameNo]
       ELSE /\ UNCHANGED <<bufDescTable, hashTable, filePages>>
            /\ last' = [NoCall EXCEPT !.op = "disposePage"]

\* ---- BufMgr::~BufMgr ----------------------------------------------------
\* The for loop of the destructor from frame i on: flushFile is called for
\* the file of every frame found dirty, and an exception of flushFile ends
\* the destructor.
RECURSIVE destructorLoop(_, _, _, _, _)
destructorLoop(tbl, hash, pool, i, wrote) ==
  IF i = NumBufs
    THEN [exc |-> "none", tbl |-> tbl, hash |-> hash, wrote |-> wrote]
  ELSE IF tbl[i].dirty
    THEN LET r == flushFileLoop(tbl, hash, pool, 0, <<>>)
         IN  IF r.exc # "none"
               THEN [exc |-> r.exc, tbl |-> r.tbl, hash |-> r.hash,
                     wrote |-> wrote \o r.wrote]
               ELSE destructorLoop(r.tbl, r.hash, pool, i + 1,
                                   wrote \o r.wrote)
  ELSE destructorLoop(tbl, hash, pool, i + 1, wrote)

destructor ==
  LET r == destructorLoop(bufDescTable, hashTable, bufPool, 0, <<>>)
  IN  /\ bufDescTable' = r.tbl
      /\ hashTable' = r.hash
      /\ UNCHANGED <<bufPool, clockHand, filePages>>
      /\ last' = [NoCall EXCEPT !.op = "~BufMgr",
                    !.exc = r.exc, !.wrote = r.wrote]

\* ---- the callers --------------------------------------------------------
\* the manager has not been destroyed
Alive == last.op # "~BufMgr"

DoReadPage ==
  Alive /\ \E file \in Files, pageNo \in Pages : readPage(file, pageNo)

DoUnPinPage ==
  Alive /\ \E file \in Files, pageNo \in Pages, dirty \in BOOLEAN :
             unPinPage(file, pageNo, dirty)

DoAllocPage == Alive /\ \E file \in Files : allocPage(file)

DoFlushFile == Alive /\ \E file \in Files : flushFile(file)

DoDisposePage ==
  Alive /\ \E file \in Files, pageNo \in Pages : disposePage(file, pageNo)

DoDestructor == Alive /\ destructor

Next ==
  \/ DoReadPage
  \/ DoUnPinPage
  \/ DoAllocPage
  \/ DoFlushFile
  \/ DoDisposePage
  \/ DoDestructor

Spec == Init /\ [][Next]_vars

\* ---- the properties -----------------------------------------------------
\* the index holds an entry for (file, pageNo)
Cached(file, pageNo) == HashPresent(hashTable, file, pageNo)

\* allocBuf ran in the last call (readPage miss or allocPage)
AllocBufCalled(l) == l.allocBuf # "none"

\* C1: every index entry (file,pageNo)->frame points to a valid descriptor
\* that holds exactly (file,pageNo), and no two entries name the same frame.
C1_IndexSound ==
  /\ \A k \in Keys :
       hashTable[k] # NoFrame =>
         /\ bufDescTable[hashTable[k]].valid
         /\ bufDescTable[hashTable[k]].file = k[1]
         /\ bufDescTable[hashTable[k]].pageNo = k[2]
  /\ \A k1, k2 \in Keys :
       (hashTable[k1] # NoFrame /\ hashTable[k1] = hashTable[k2]) => k1 = k2

\* C2: every valid descriptor has an index entry for its own (file,pageNo)
\* and the entry maps to its own frame number.
C2_ValidIndexed ==
  \A i \in Frames :
    bufDescTable[i].valid =>
      /\ HashPresent(hashTable, bufDescTable[i].file, bufDescTable[i].pageNo)
      /\ lookup(hashTable, bufDescTable[i].file, bufDescTable[i].pageNo) = i

\* C2 witness: a page was loaded into a frame another page was evicted from,
\* and both frames are valid.
C2_Witness ==
  /\ last.op = "readPage" /\ last.allocBuf = "ok"
  /\ \A i \in Frames : bufDescTable[i].valid
  /\ \E k \in Keys : hashTable[k] = NoFrame

\* C3: pinCnt >= 0; an invalid descriptor has pinCnt = 0 and dirty = FALSE;
\* a pinned descriptor is valid.
C3_DescInv ==
  \A i \in Frames :
    /\ bufDescTable[i].pinCnt >= 0
    /\ bufDescTable[i].valid = FALSE =>
         (bufDescTable[i].pinCnt = 0 /\ bufDescTable[i].dirty = FALSE)
    /\ bufDescTable[i].pinCnt > 0 => bufDescTable[i].valid = TRUE

\* C4: the frame allocBuf returns has pinCnt = 0 when the call starts (allocBuf
\* changes no pin count before it selects).
C4_NoPinnedVictim ==
  [][last'.allocBuf = "ok" => bufDescTable[last'.frame].pinCnt = 0]_vars

\* C5: a call of allocBuf fails with buffer-exhausted if and only if every
\* frame has pinCnt > 0 when it is called.
C5_ExhaustedIffAllPinned ==
  [][AllocBufCalled(last') =>
       ((last'.allocBuf = "BufferExceeded")
          <=> (\A i \in Frames : bufDescTable[i].pinCnt > 0))]_vars

\* C6 as claimed: when allocBuf fails with buffer-exhausted every descriptor
\* (valid, refbit, dirty, pinCnt, file, pageNo) and the index are as before.
C6_FailedAllocBufUnchanged ==
  [][last'.allocBuf = "BufferExceeded" =>
       (bufDescTable' = bufDescTable /\ hashTable' = hashTable)]_vars

\* C6 amended: when allocBuf fails with buffer-exhausted the index, the pool
\* and every descriptor's valid, dirty, pinCnt, file and pageNo are as before;
\* a refbit is never set by the failed sweep, it can only have been cleared.
C6_FailedAllocBufKeepsAllButRefbit ==
  [][last'.allocBuf = "BufferExceeded" =>
       /\ hashTable' = hashTable
       /\ bufPool' = bufPool
       /\ \A i \in Frames :
            /\ [bufDescTable'[i] EXCEPT !.refbit = FALSE]
                 = [bufDescTable[i] EXCEPT !.refbit = FALSE]
            /\ bufDescTable'[i].refbit => bufDescTable[i].refbit]_vars

\* C6 witness: a failed allocBuf that cleared a refbit on its way.
C6_Witness ==
  /\ last.allocBuf = "BufferExceeded"
  /\ \A i \in Frames : bufDescTable[i].valid /\ bufDescTable[i].pinCnt > 0
  /\ \E i \in Frames : ~bufDescTable[i].refbit
  /\ \E i \in Frames : bufDescTable[i].refbit

\* C7: unPinPage on a cached page whose pinCnt is 0 signals page-not-pinned
\* and changes no state, whatever the dirty argument.
C7_UnpinUnpinned ==
  [][(last'.op = "unPinPage" /\ last'.hit
        /\ bufDescTable[last'.frame].pinCnt = 0) =>
       /\ last'.exc = "PageNotPinned"
       /\ UNCHANGED <<bufDescTable, bufPool, hashTable, clockHand,
                      filePages>>]_vars

\* C7 witness: page-not-pinned was signalled for a valid, dirty, cached page.
C7_Witness ==
  /\ last.op = "unPinPage" /\ last.exc = "PageNotPinned"
  /\ bufDescTable[last.frame].valid
  /\ bufDescTable[last.frame].dirty
  /\ bufDescTable[last.frame].pinCnt = 0

\* the change of pinCnt the step owes to the page (file, pageNo)
PinDelta(file, pageNo) ==
  IF readPage(file, pageNo) /\ last'.exc = "none" THEN 1
  ELSE IF (\E dirty \in BOOLEAN : unPinPage(file, pageNo, dirty))
            /\ last'.exc = "none" THEN -1
  ELSE 0

\* C8: while a page stays cached its pinCnt goes up by one with every
\* successful readPage of it, down by one with every successful unPinPage
\* of it, and is changed by nothing else; it is 1 when the page is loaded.
C8_PinCountBalance ==
  [][\A k \in Keys :
       /\ (hashTable[k] # NoFrame /\ hashTable'[k] = hashTable[k]) =>
            bufDescTable'[hashTable[k]].pinCnt
              = bufDescTable[hashTable[k]].pinCnt + PinDelta(k[1], k[2])
       /\ (hashTable[k] = NoFrame /\ hashTable'[k] # NoFrame) =>
            bufDescTable'[hashTable'[k]].pinCnt = 1]_vars

\* C9: after a successful allocPage(file) that returned pageNo in frame f, an
\* immediately following readPage(file, pageNo) is a hit: no disk read, the
\* same frame, and pinCnt = 2.
C9_AllocThenReadHits ==
  [][(last.op = "allocPage" /\ last.exc = "none"
        /\ readPage(last.file, last.pageNo)) =>
       /\ last'.hit
       /\ ~last'.diskRead
       /\ last'.frame = last.frame
       /\ bufDescTable'[last.frame].pinCnt = 2]_vars

\* C9 witness: the readPage directly after the allocPage of the same page was
\* a hit and left the frame with pinCnt = 2.
C9_Witness ==
  /\ last.op = "readPage" /\ last.afterAlloc /\ last.hit
  /\ bufDescTable[last.frame].valid
  /\ bufDescTable[last.frame].pinCnt = 2

\* frame i holds after the step what it held before (refbit and pinCnt aside)
SameContent(i) ==
  /\ bufDescTable'[i].valid = bufDescTable[i].valid
  /\ bufDescTable'[i].file = bufDescTable[i].file
  /\ bufDescTable'[i].pageNo = bufDescTable[i].pageNo
  /\ bufDescTable'[i].dirty = bufDescTable[i].dirty

\* the step called writePage of frame i's file on frame i's content
WroteBack(i) ==
  \E j \in 1 .. Len(last'.wrote) :
    last'.wrote[j] = <<bufDescTable[i].file, bufPool[i]>>

\* C10: a dirty bit set by unPinPage stays set through hits and unpins; a
\* step of allocBuf (readPage miss, allocPage) or flushFile resets or reuses a
\* dirty frame only after writePage on its content, and leaves its dirty bit
\* clear; allocBuf writes back nothing but a dirty victim.
C10_DirtyWrittenBack ==
  [][/\ (last'.op \in {"readPage", "unPinPage"} /\ ~AllocBufCalled(last')) =>
          \A i \in Frames : bufDescTable[i].dirty => bufDescTable'[i].dirty
     /\ (AllocBufCalled(last') \/ last'.op = "flushFile") =>
          \A i \in Frames :
            (bufDescTable[i].dirty /\ ~SameContent(i)) =>
               (WroteBack(i) /\ ~bufDescTable'[i].dirty)
     /\ AllocBufCalled(last') =>
          /\ Len(last'.wrote) <= 1
          /\ last'.wrote # <<>> =>
               \E i \in Frames : /\ bufDescTable[i].dirty
                                 /\ WroteBack(i)
                                 /\ ~SameContent(i)]_vars

\* how often x occurs in the sequence seq
Times(seq, x) == Cardinality({j \in 1 .. Len(seq) : seq[j] = x})

\* C11: when flushFile(file) returns successfully, every frame that held a
\* page of file is invalid, the index entry of that page is gone, the page
\* was written back exactly once if the frame was dirty, and no frame
\* references file.
C11_FlushEvictsFile ==
  [][(last'.op = "flushFile" /\ last'.exc = "none") =>
       /\ \A i \in Frames :
            (bufDescTable[i].valid /\ bufDescTable[i].file = last'.file) =>
              /\ ~bufDescTable'[i].valid
              /\ ~HashPresent(hashTable', bufDescTable[i].file,
                              bufDescTable[i].pageNo)
              /\ bufDescTable[i].dirty =>
                   Times(last'.wrote, <<last'.file, bufPool[i]>>) = 1
       /\ \A i \in Frames : bufDescTable'[i].file # last'.file]_vars

\* C11 witness: a successful flushFile(file) wrote back a page of file.
C11_Witness ==
  /\ last.op = "flushFile" /\ last.exc = "none"
  /\ \E j \in 1 .. Len(last.wrote) : last.wrote[j][1] = last.file
  /\ \A i \in Frames : ~bufDescTable[i].valid

\* C12: a flushFile that fails with page-pinned leaves the descriptor table,
\* the index and the file contents as they were before the call: no frame
\* cleared, no entry removed, no page written.
C12_FlushPinnedAborts ==
  [][(last'.op = "flushFile" /\ last'.exc = "PagePinned") =>
       /\ bufDescTable' = bufDescTable
       /\ hashTable' = hashTable
       /\ last'.wrote = <<>>]_vars

\* C13: after disposePage(file, pageNo) on a cached page the descriptor of its
\* frame is invalid and the index has no entry for (file, pageNo), so that a
\* readPage(file, pageNo) that follows is a miss.
C13_DisposeUncaches ==
  [][/\ (last'.op = "disposePage" /\ last'.hit) =>
          /\ ~bufDescTable'[last'.frame].valid
          /\ ~HashPresent(hashTable', last'.file, last'.pageNo)
     /\ (last.op = "disposePage" /\ last.hit
           /\ readPage(last.file, last.pageNo)) => ~last'.hit]_vars

\* C14: disposePage calls File::deletePage, whether or not the page is cached.
C14_DisposeDeletes ==
  last.op = "disposePage" => last.deleted

\* C15: the destructor ends without an exception and has written back, through
\* its file, the page of every frame that was dirty when it started.
C15_DestructorFlushes ==
  [][last'.op = "~BufMgr" =>
       /\ last'.exc = "none"
       /\ \A i \in Frames : bufDescTable[i].dirty => WroteBack(i)]_vars

\* every frame holds a cached page and at least one of them is unpinned
FullWithUnpinned ==
  /\ \A i \in Frames : bufDescTable[i].valid
  /\ \A i, j \in Frames :
       (i # j) => <<bufDescTable[i].file, bufDescTable[i].pageNo>>
                    # <<bufDescTable[j].file, bufDescTable[j].pageNo>>
  /\ \E i \in Frames : bufDescTable[i].pinCnt = 0

\* no frame holds the page k
NotInPool(k) ==
  \A i \in Frames : <<bufDescTable[i].file, bufDescTable[i].pageNo>> # k

\* C16: with the pool full of distinct cached pages, one of them unpinned, a
\* readPage of one more page k succeeds and evicts exactly one page, an
\* unpinned one: every other page keeps its frame, index entry, pinCnt and
\* dirty bit, and k is cached in the victim's frame with pinCnt = 1, refbit
\* and valid set, dirty clear.
C16_MissEvictsOneUnpinned ==
  [][\A k \in Keys :
       (FullWithUnpinned /\ NotInPool(k) /\ readPage(k[1], k[2])) =>
         /\ last'.exc = "none"
         /\ last'.allocBuf = "ok"
         /\ bufDescTable[last'.frame].pinCnt = 0
         /\ ~HashPresent(hashTable', bufDescTable[last'.frame].file,
                         bufDescTable[last'.frame].pageNo)
         /\ \A i \in Frames \ {last'.frame} :
              /\ SameContent(i)
              /\ bufDescTable'[i].pinCnt = bufDescTable[i].pinCnt
              /\ lookup(hashTable', bufDescTable[i].file,
                        bufDescTable[i].pageNo) = i
         /\ lookup(hashTable', k[1], k[2]) = last'.frame
         /\ bufDescTable'[last'.frame] =
              [file |-> k[1], pageNo |-> k[2], valid |-> TRUE,
               refbit |-> TRUE, dirty |-> FALSE, pinCnt |-> 1]]_vars

\* C17: flushFile(file) throws PagePinnedException only if a frame holding a
\* page of file is pinned, BadBufferException only if an invalid frame
\* belonging to file is met, and leaves the frames of other files and the
\* empty frames as they are.
C17_FlushOnlyItsFile ==
  [][last'.op = "flushFile" =>
       /\ last'.exc = "PagePinned" =>
            \E i \in Frames : /\ bufDescTable[i].file = last'.file
                              /\ bufDescTable[i].valid
                              /\ bufDescTable[i].pinCnt > 0
       /\ last'.exc = "BadBuffer" =>
            \E i \in Frames : /\ bufDescTable[i].file = last'.file
                              /\ ~bufDescTable[i].valid
       /\ \A i \in Frames :
            bufDescTable[i].file # last'.file =>
              bufDescTable'[i] = bufDescTable[i]]_vars

\* The reference clock sweep. ClockOrder(hand)[j] is the j-th frame reached
\* from the hand; a frame can be taken on the first lap if it is invalid, or
\* unpinned with refbit clear; on the second lap every refbit has been
\* cleared and the first unpinned frame is taken.
ClockOrder(hand) == [j \in 1 .. NumBufs |-> (hand + j) % NumBufs]

FirstLap(tbl, hand) ==
  {j \in 1 .. NumBufs :
     LET d == tbl[ClockOrder(hand)[j]]
     IN  ~d.valid \/ (d.pinCnt = 0 /\ ~d.refbit)}

SecondLap(tbl, hand) ==
  {j \in 1 .. NumBufs : tbl[ClockOrder(hand)[j]].pinCnt = 0}

RefVictim(tbl, hand) ==
  IF FirstLap(tbl, hand) # {}
    THEN ClockOrder(hand)[Min(FirstLap(tbl, hand))]
  ELSE IF SecondLap(tbl, hand) # {}
    THEN ClockOrder(hand)[Min(SecondLap(tbl, hand))]
  ELSE NoFrame

\* the refbit the reference sweep leaves on frame i, which is not the victim:
\* cleared if the sweep passed the frame, as it was otherwise
RefRefbit(tbl, hand, i) ==
  IF FirstLap(tbl, hand) # {}
    THEN IF \E j \in 1 .. Min(FirstLap(tbl, hand)) : ClockOrder(hand)[j] = i
           THEN FALSE
           ELSE tbl[i].refbit
    ELSE FALSE

C19_FailedAllocPageNoCommit ==
  [][(last'.op = "allocPage" /\ last'.exc = "BufferExceeded") =>
       /\ ~last'.created
       /\ filePages' = filePages
       /\ bufPool' = bufPool
       /\ bufDescTable' = bufDescTable
       /\ hashTable' = hashTable]_vars

\* C20: the clock hand is a frame number; every call of allocBuf made so far
\* ended after at most 2 * NumBufs calls of advanceClock, and so would a call
\* of allocBuf in the current state, whose hand is a frame number again.
C20_AllocBufTerminates ==
  /\ clockHand \in Frames
  /\ last.advances <= 2 * NumBufs
  /\ LET r == allocBuf(bufDescTable, hashTable, bufPool, clockHand)
     IN  /\ r.advances <= 2 * NumBufs
         /\ r.hand \in Frames
         /\ r.exc \in {"none", "BufferExceeded"}

\* C20 witness: a call of allocBuf that took two full laps and returned the
\* frame it had started from.
C20_Witness ==
  /\ last.allocBuf = "ok"
  /\ last.advances = 2 * NumBufs
  /\ clockHand = last.frame

====
